---------------------------- MODULE Spec2Model ----------------------------
(***************************************************************************)
(* A model of asyncio-https-proxy: the acceptor of server.py (one task per *)
(* accepted connection), the request parser of http_request.py and the     *)
(* forwarder of https_forward_proxy_handler.py.                            *)
(*                                                                         *)
(* Byte strings are sequences of one-character strings; the two bytes      *)
(* "\r\n" are the single symbol "CRLF".                                    *)
(***************************************************************************)
EXTENDS Integers, Sequences, FiniteSets, TLC

(***************************************************************************)
(* Bounds of the model.                                                    *)
(***************************************************************************)
\* Number of client connections the acceptor is offered.
MaxConns == 2

\* Number of forward_http_request calls made on one handler object.
MaxCalls == 2

\* Number of reads of the upstream response body in one forward call.
MaxReads == 2

\* Concurrent callers of TLSStore.get_ssl_context.
MaxCallers == 2

\* Runs of TLSStore._generate_cert in a behaviour.
MaxMints == 4

\* Headers in a header list given to an HTTPRequest object.
MaxHeaders == 2

\* Calls of to_raw_headers on one HTTPRequest object.
MaxCycles == 2

\* Reads of the client's request body in one read_request_body().
MaxBodyReads == 4

(***************************************************************************)
(* Byte strings.                                                           *)
(***************************************************************************)
CRLF == "CRLF"

\* Python's None where a string is expected (host of urlparse("/")).
None == <<"None">>

S_GET == <<"G", "E", "T">>
S_CONNECT == <<"C", "O", "N", "N", "E", "C", "T">>
S_VERSION == <<"H", "T", "T", "P", "/", "1", ".", "1">>
S_HTTP == <<"h", "t", "t", "p", ":", "/", "/">>
S_HOST == <<"H", "o", "s", "t">>

Digits == {"0", "1", "2", "3", "4", "5", "6", "7", "8", "9"}

DigitVal(c) ==
    CASE c = "0" -> 0 [] c = "1" -> 1 [] c = "2" -> 2 [] c = "3" -> 3
      [] c = "4" -> 4 [] c = "5" -> 5 [] c = "6" -> 6 [] c = "7" -> 7
      [] c = "8" -> 8 [] c = "9" -> 9

\* str.lower() on the alphabet of the model.
LowerChar(c) ==
    CASE c = "A" -> "a" [] c = "B" -> "b" [] c = "H" -> "h" [] c = "X" -> "x"
      [] c = "G" -> "g" [] c = "E" -> "e" [] c = "T" -> "t" [] c = "C" -> "c"
      [] c = "O" -> "o" [] c = "N" -> "n" [] c = "P" -> "p"
      [] OTHER -> c

Lower(s) == [i \in 1..Len(s) |-> LowerChar(s[i])]

IsSpace(c) == c \in {" ", CRLF}

RECURSIVE LStrip(_)
LStrip(s) == IF s # <<>> /\ IsSpace(Head(s)) THEN LStrip(Tail(s)) ELSE s

RECURSIVE RStrip(_)
RStrip(s) ==
    IF s # <<>> /\ IsSpace(s[Len(s)]) THEN RStrip(SubSeq(s, 1, Len(s) - 1)) ELSE s

\* str.strip()
Strip(s) == RStrip(LStrip(s))

\* str.find(c) + 1: the first position of c in s, 0 when there is none.
IndexOf(s, c) ==
    IF \E i \in 1..Len(s) : s[i] = c
    THEN CHOOSE i \in 1..Len(s) : s[i] = c /\ \A j \in 1..(i - 1) : s[j] # c
    ELSE 0

\* str.split(sep) for a one-symbol separator: empty tokens are kept.
RECURSIVE Split(_, _)
Split(s, sep) ==
    LET i == IndexOf(s, sep)
    IN  IF i = 0 THEN <<s>>
        ELSE <<SubSeq(s, 1, i - 1)>> \o Split(SubSeq(s, i + 1, Len(s)), sep)

\* str.split(sep, 1)
SplitOnce(s, sep) ==
    LET i == IndexOf(s, sep)
    IN  IF i = 0 THEN <<s>>
        ELSE <<SubSeq(s, 1, i - 1), SubSeq(s, i + 1, Len(s))>>

HasPrefix(s, p) == Len(s) >= Len(p) /\ SubSeq(s, 1, Len(p)) = p

\* int(s) for a string of decimal digits.
RECURSIVE DecimalValue(_)
DecimalValue(s) ==
    IF s = <<>> THEN 0
    ELSE 10 * DecimalValue(SubSeq(s, 1, Len(s) - 1)) + DigitVal(s[Len(s)])

IsDecimal(s) == s # <<>> /\ \A i \in 1..Len(s) : s[i] \in Digits

(***************************************************************************)
(* Requests.  A port is an int after urlparse and a str after the CONNECT  *)
(* branch of parse_request_line; both shapes are kept in one record.       *)
(***************************************************************************)
PortInt(n) == [t |-> "int", n |-> n, s |-> <<>>]
PortStr(s) == [t |-> "str", n |-> 0, s |-> s]

NoReq ==
    [method |-> <<>>, path |-> <<>>, version |-> <<>>, scheme |-> "",
     host |-> None, port |-> PortInt(0), headers |-> <<>>, conn |-> 0,
     inner |-> FALSE]

Parsed(r) == [err |-> "none", req |-> r]
Raised(e) == [err |-> e, req |-> NoReq]

\* urllib.parse.urlparse(path): hostname and port of the netloc, for targets
\* of the forms scheme://host[:port]/... and /path.
Urlparse(path) ==
    IF HasPrefix(path, S_HTTP)
    THEN LET rest == SubSeq(path, Len(S_HTTP) + 1, Len(path))
             netloc == Split(rest, "/")[1]
             hp == SplitOnce(netloc, ":")
             hostname == IF hp[1] = <<>> THEN None ELSE Lower(hp[1])
         IN  IF Len(hp) = 1 \/ hp[2] = <<>>
             THEN [err |-> "none", hostname |-> hostname, port |-> 0]
             ELSE IF IsDecimal(hp[2]) /\ DecimalValue(hp[2]) <= 65535
                  THEN [err |-> "none", hostname |-> hostname,
                        port |-> DecimalValue(hp[2])]
                  ELSE [err |-> "ValueError", hostname |-> hostname, port |-> 0]
    ELSE [err |-> "none", hostname |-> None, port |-> 0]

\* A parser that takes the first three tokens of a line and asks nothing
\* of the target.
ParseRequestLine_FirstThree(line) ==
    LET parts == Split(Strip(line), " ")
    IN  IF Len(parts) < 3 THEN Raised("ValueError")
        ELSE Parsed([NoReq EXCEPT
                       !.method = parts[1], !.path = parts[2],
                       !.version = parts[3],
                       !.scheme = IF parts[1] = S_CONNECT THEN "https"
                                  ELSE "http"])

\* HTTPRequest.parse_request_line
ParseRequestLine(line) ==
    LET parts == Split(Strip(line), " ")
    IN  IF Len(parts) # 3 THEN Raised("ValueError")
        ELSE LET method == parts[1]
                 path == parts[2]
                 version == parts[3]
                 scheme == IF method = S_CONNECT THEN "https" ELSE "http"
                 base == [NoReq EXCEPT !.method = method, !.path = path,
                                       !.version = version, !.scheme = scheme]
             IN  IF scheme = "https"
                 THEN IF IndexOf(path, ":") = 0 THEN Raised("ValueError")
                      ELSE \* self.host, self.port = path.split(":")[0]
                           \* unpacks the characters of the text before the
                           \* first colon.
                           LET first == Split(path, ":")[1]
                           IN  IF Len(first) # 2 THEN Raised("ValueError")
                               ELSE Parsed([base EXCEPT
                                              !.host = <<first[1]>>,
                                              !.port = PortStr(<<first[2]>>)])
                 ELSE LET uri == Urlparse(path)
                      IN  IF uri.err # "none" THEN Raised(uri.err)
                          ELSE Parsed([base EXCEPT
                                         !.host = uri.hostname,
                                         !.port = IF uri.port = 0
                                                  THEN PortInt(80)
                                                  ELSE PortInt(uri.port)])

\* HTTPRequest.parse_headers: [err, headers]
RECURSIVE ParseHeaderLines(_)
ParseHeaderLines(lines) ==
    IF lines = <<>> THEN [err |-> "none", headers |-> <<>>]
    ELSE LET line == Head(lines)
             rest == ParseHeaderLines(Tail(lines))
         IN  IF line = <<>> THEN rest
             ELSE LET kv == SplitOnce(line, ":")
                  IN  IF Len(kv) # 2 THEN [err |-> "ValueError", headers |-> <<>>]
                      ELSE IF rest.err # "none" THEN rest
                      ELSE [err |-> "none",
                            headers |-> <<<<Strip(kv[1]), kv[2]>>>> \o rest.headers]

ParseHeaders(raw) == ParseHeaderLines(Split(raw, CRLF))

\* A lookup that compares the names as they are written.
GetFirstHeader_CaseSensitive(headers, key) ==
    IF \E i \in 1..Len(headers) : headers[i][1] = key
    THEN LET i == CHOOSE i \in 1..Len(headers) :
                    /\ headers[i][1] = key
                    /\ \A j \in 1..(i - 1) : headers[j][1] # key
         IN  headers[i][2]
    ELSE None

\* HTTPRequest.get_first_header
GetFirstHeader(headers, key) ==
    IF \E i \in 1..Len(headers) : Lower(headers[i][1]) = Lower(key)
    THEN LET i == CHOOSE i \in 1..Len(headers) :
                    /\ Lower(headers[i][1]) = Lower(key)
                    /\ \A j \in 1..(i - 1) : Lower(headers[j][1]) # Lower(key)
         IN  headers[i][2]
    ELSE None

\* b"\r\n".join(lines)
RECURSIVE JoinCrlf(_)
JoinCrlf(lines) ==
    IF lines = <<>> THEN <<>>
    ELSE IF Len(lines) = 1 THEN lines[1]
    ELSE lines[1] \o <<CRLF>> \o JoinCrlf(Tail(lines))

\* HTTPRequest.to_raw_headers: f"{k}: {v}" for every header, joined by CRLF
\* and followed by CRLF CRLF.
ToRawHeaders(headers) ==
    JoinCrlf([i \in 1..Len(headers) |->
                headers[i][1] \o <<":", " ">> \o headers[i][2]])
      \o <<CRLF, CRLF>>

\* StreamReader.readuntil(b"\r\n\r\n") on the bytes that follow the request
\* line: the bytes up to and including the first CRLF CRLF, or <<>> when the
\* client closes before sending one (IncompleteReadError).
ReadUntil(stream) ==
    IF \E i \in 1..(Len(stream) - 1) : stream[i] = CRLF /\ stream[i + 1] = CRLF
    THEN LET i == CHOOSE i \in 1..(Len(stream) - 1) :
                    /\ stream[i] = CRLF /\ stream[i + 1] = CRLF
                    /\ \A j \in 1..(i - 1) : ~(stream[j] = CRLF /\ stream[j + 1] = CRLF)
         IN  SubSeq(stream, 1, i + 1)
    ELSE <<>>

\* HTTPRequest.parse_host: the results it may leave in the request.  It reads
\* only the request it is called on: the host stays as the request line gave
\* it, or becomes the host of the first Host header.
ParseHost(req) ==
    LET h == GetFirstHeader(req.headers, S_HOST)
    IN  {req} \cup
        (IF h = None THEN {}
         ELSE {[req EXCEPT !.host = Strip(SplitOnce(h, ":")[1])]})


(***************************************************************************)
(* What a client may send.                                                 *)
(***************************************************************************)
Line(method, target) == method \o <<" ">> \o target \o <<" ">> \o S_VERSION \o <<CRLF>>

\* GET http://a:8/ HTTP/1.1
LineGetAbsolute == Line(S_GET, S_HTTP \o <<"a", ":", "8", "/">>)
\* GET / HTTP/1.1
LineGetOrigin == Line(S_GET, <<"/">>)
\* CONNECT ab:8 HTTP/1.1
LineConnectTwo == Line(S_CONNECT, <<"a", "b", ":", "8">>)
\* CONNECT abb:8 HTTP/1.1
LineConnectThree == Line(S_CONNECT, <<"a", "b", "b", ":", "8">>)
\* CONNECT ab HTTP/1.1
LineConnectNoColon == Line(S_CONNECT, <<"a", "b">>)
\* GET /
LineTwoTokens == S_GET \o <<" ", "/", CRLF>>

HeaderLine(name, value) == name \o <<":">> \o value \o <<CRLF>>

\* Host: b
HeadersHost == HeaderLine(S_HOST, <<" ", "b">>) \o <<CRLF>>
\* X: 1
HeadersNoHost == HeaderLine(<<"X">>, <<" ", "1">>) \o <<CRLF>>
\* a header line without a colon
HeadersNoColon == <<"X", CRLF, CRLF>>
\* the client closes before the blank line
HeadersCut == HeaderLine(<<"X">>, <<" ", "1">>)

Message(line, stream) == [line |-> line, stream |-> stream]

\* What a client may send first: a request line and the bytes after it.  The
\* empty line is a client that closes before sending a request line.
OuterMessages ==
    {Message(<<>>, <<>>),
     Message(LineGetAbsolute, HeadersHost),
     Message(LineGetAbsolute, HeadersNoColon),
     Message(LineGetAbsolute, HeadersCut),
     Message(LineConnectTwo, HeadersNoHost),
     Message(LineConnectThree, HeadersNoHost),
     Message(LineConnectNoColon, HeadersNoHost),
     Message(LineTwoTokens, HeadersNoHost)}

\* What a client may send inside the tunnel.
InnerMessages ==
    {Message(<<>>, <<>>),
     Message(LineGetOrigin, HeadersHost),
     Message(LineGetOrigin, HeadersNoHost),
     Message(LineGetOrigin, HeadersNoColon),
     Message(LineGetOrigin, HeadersCut),
     Message(LineTwoTokens, HeadersNoHost)}

(***************************************************************************)
(* State.                                                                  *)
(***************************************************************************)
VARIABLES
    \* server.py: one handle_connection task per accepted connection
    pc,            \* where the task of each connection stands
    gotLine,       \* what the first readline returned: "none" before it
                   \* returns, "eof" for b"", "line" otherwise
    exc,           \* the exception that ended the task, "none" otherwise
    initial,       \* initial_request of the task
    plainOut,      \* what handle_connection wrote to the client in plaintext
    drained,       \* whether those writes were flushed (drain returned)
    tlsStarted,    \* whether start_tls began the handshake
    tlsHost,       \* server_hostname given to start_tls
    tlsCtx,        \* the SSL context given to start_tls
    tlsDone,       \* whether the handshake completed
    writerClosed,  \* whether the client writer was closed
    proxy,         \* the handler handler_builder returned for the connection
    builderCalls,  \* number of calls of handler_builder
    hobj,          \* the handler objects: client_reader, client_writer,
                   \* request, and the requests client_connected saw
    handlerClass,  \* the class handler_builder instantiates
    \* https_forward_proxy_handler.py: one HTTPSForwardProxyHandler object
    fw,            \* its fields and the position of its forward call
    \* tls_store.py: one TLSStore object
    tls,           \* its cache, and the callers of get_ssl_context
    \* http_request.py: one HTTPRequest object
    hr,            \* its fields, and what its methods were given and returned
    \* https_proxy_handler.py: one read_request_body() and the loop of
    \* forward_http_request that consumes it
    rb             \* the generator, what it yielded and what went upstream

serverVars ==
    <<pc, gotLine, exc, initial, plainOut, drained, tlsStarted, tlsHost, tlsCtx,
      tlsDone, writerClosed, proxy, builderCalls, hobj, handlerClass>>

vars == <<serverVars, fw, tls, hr, rb>>

Conns == 1..MaxConns
HandlerIds == 1..MaxConns

\* A reply that lacks the blank line.
ConnectReply_OneCrlf ==
    S_VERSION \o <<" ", "2", "0", "0", " ">>
      \o <<"C", "o", "n", "n", "e", "c", "t", "i", "o", "n", " ">>
      \o <<"E", "s", "t", "a", "b", "l", "i", "s", "h", "e", "d">>
      \o <<CRLF>>

\* server.py:64
ConnectReply ==
    S_VERSION \o <<" ", "2", "0", "0", " ">>
      \o <<"C", "o", "n", "n", "e", "c", "t", "i", "o", "n", " ">>
      \o <<"E", "s", "t", "a", "b", "l", "i", "s", "h", "e", "d">>
      \o <<CRLF, CRLF>>

\* No context yet, and the ssl_context argument of start_proxy_server: one
\* context for the whole server, built by the caller before any connection
\* exists and tied to no domain of the store.
NoContext == [origin |-> "none", domain |-> None]
ssl_context == [origin |-> "start_proxy_server", domain |-> None]

NoHandler ==
    [reader |-> 0, writer |-> 0, request |-> NoReq,
     seen |-> <<>>,     \* the requests client_connected saw
     hooks |-> <<>>]    \* the methods of the handler that were awaited

\* _parse_request after a request line was read: the request line, the
\* header block up to the blank line, the headers, the host.
ParseAfterLine(k, msg, isInner) ==
    LET rl == ParseRequestLine(msg.line)
        raw == ReadUntil(msg.stream)
        hs == ParseHeaders(raw)
    IN  IF rl.err # "none" THEN {Raised(rl.err)}
        ELSE IF raw = <<>> THEN {Raised("IncompleteReadError")}
        ELSE IF hs.err # "none" THEN {Raised(hs.err)}
        ELSE {Parsed(r) : r \in ParseHost([rl.req EXCEPT
                                             !.headers = hs.headers,
                                             !.conn = k,
                                             !.inner = isInner])}

\* A parser that returns an empty request when the client closed, where
\* _parse_request raises.
ParseRequest_EofReturnsEmpty(k, msg, isInner) ==
    IF msg.line = <<>>
    THEN {Parsed([NoReq EXCEPT !.conn = k, !.inner = isInner])}
    ELSE ParseAfterLine(k, msg, isInner)

\* _parse_request on a connection whose client sends `line` and then
\* `stream`: the request, or the exception raised.
ParseRequest(k, msg, isInner) ==
    IF msg.line = <<>> THEN {Raised("ConnectionError")}
    ELSE ParseAfterLine(k, msg, isInner)

\* A builder that hands every connection the same handler object.
NewHandler_Shared(n) == 1

\* handler_builder(): a fresh handler object for every call.
NewHandler(n) == n + 1

\* A task that ends and leaves its writer open.
EndTask_LeaveOpen(k, e) ==
    /\ pc' = [pc EXCEPT ![k] = "ended"]
    /\ exc' = [exc EXCEPT ![k] = e]
    /\ UNCHANGED writerClosed

\* The task ends: `with closing(writer)` closes the writer on the way out.
EndTask(k, e) ==
    /\ pc' = [pc EXCEPT ![k] = "ended"]
    /\ exc' = [exc EXCEPT ![k] = e]
    /\ writerClosed' = [writerClosed EXCEPT ![k] = TRUE]

\* proxy.client_reader = reader; proxy.client_writer = writer
Attach(obj, k) == [obj EXCEPT !.reader = k, !.writer = k]

\* An acceptor that stops once a connection task has ended with an
\* exception.
CanAccept_HaltOnError(k) ==
    pc[k] = "new" /\ \A j \in Conns : exc[j] = "none"

\* An acceptor that awaits handle_connection() before it takes the next
\* connection.
CanAccept_Serial(k) ==
    pc[k] = "new" /\ \A j \in Conns \ {k} : pc[j] \in {"new", "ended"}

\* asyncio.create_task(handle_connection()): the acceptor starts the task of
\* a new connection whatever the other tasks are doing.
CanAccept(k) == pc[k] = "new"

\* The handler classes handler_builder may instantiate: one that defines
\* client_connected, as MockProxyHandler of tests/test_server.py does, and
\* one that overrides on_client_connected of HTTPSProxyHandler, as the
\* handler of examples/forward_proxy_usage.py does, and
\* HTTPSForwardProxyHandler itself, with no override.
HandlerClasses ==
    {"defines_client_connected", "defines_on_client_connected",
     "HTTPSForwardProxyHandler"}

\* Whether proxy.client_connected resolves.  HTTPSProxyHandler defines
\* on_client_connected and no client_connected.
HasClientConnected(cls) == cls = "defines_client_connected"

\* await proxy.client_connected(): the handler sees its request.
InvokeConnected(h, obj) ==
    [obj EXCEPT !.seen = Append(@, obj.request),
                !.hooks = Append(@, "client_connected")]

\* server.py:77 on handler h, whose fields are obj by then: the callback
\* starts, or the attribute lookup raises AttributeError.
CallConnected(k, h, obj) ==
    IF HasClientConnected(handlerClass)
    THEN /\ hobj' = [hobj EXCEPT ![h] = InvokeConnected(h, obj)]
         /\ pc' = [pc EXCEPT ![k] = "handler"]
         /\ UNCHANGED <<exc, writerClosed>>
    ELSE /\ hobj' = [hobj EXCEPT ![h] = obj]
         /\ EndTask(k, "AttributeError")

InitServer ==
    /\ pc = [k \in Conns |-> "new"]
    /\ gotLine = [k \in Conns |-> "none"]
    /\ exc = [k \in Conns |-> "none"]
    /\ initial = [k \in Conns |-> NoReq]
    /\ plainOut = [k \in Conns |-> <<>>]
    /\ drained = [k \in Conns |-> FALSE]
    /\ tlsStarted = [k \in Conns |-> FALSE]
    /\ tlsHost = [k \in Conns |-> None]
    /\ tlsCtx = [k \in Conns |-> NoContext]
    /\ tlsDone = [k \in Conns |-> FALSE]
    /\ writerClosed = [k \in Conns |-> FALSE]
    /\ proxy = [k \in Conns |-> 0]
    /\ builderCalls = 0
    /\ hobj = [h \in HandlerIds |-> NoHandler]
    /\ handlerClass \in HandlerClasses

\* proxy_handler: the callback of asyncio.start_server for a new connection.
\* It builds the handler and creates the task; it awaits nothing.
Accept(k) ==
    /\ CanAccept(k)
    /\ builderCalls' = builderCalls + 1
    /\ proxy' = [proxy EXCEPT ![k] = NewHandler(builderCalls)]
    /\ pc' = [pc EXCEPT ![k] = "created"]
    /\ UNCHANGED <<exc, initial, plainOut, drained, tlsStarted, tlsHost, tlsCtx,
                   tlsDone, writerClosed, hobj>>
    /\ UNCHANGED <<fw, handlerClass, tls, hr, rb>>
    /\ UNCHANGED gotLine

\* The first step of the task: it enters `with closing(writer)` and waits
\* for the request line.
TaskStart(k) ==
    /\ pc[k] = "created"
    /\ pc' = [pc EXCEPT ![k] = "parse"]
    /\ UNCHANGED <<exc, initial, plainOut, drained, tlsStarted, tlsHost, tlsCtx,
                   tlsDone, writerClosed, proxy, builderCalls, hobj>>
    /\ UNCHANGED <<fw, handlerClass, tls, hr, rb>>
    /\ UNCHANGED gotLine

\* handle_connection from _parse_request(reader) to its next await: drain
\* for a CONNECT request, the handler's callback otherwise.
ParseOuter(k) ==
    /\ pc[k] = "parse"
    /\ \E msg \in OuterMessages :
         \E res \in ParseRequest(k, msg, FALSE) :
            /\ gotLine' = [gotLine EXCEPT
                             ![k] = IF msg.line = <<>> THEN "eof" ELSE "line"]
            /\ IF res.err # "none"
               THEN /\ EndTask(k, res.err)
                    /\ UNCHANGED <<initial, plainOut, drained, tlsStarted, tlsHost, tlsCtx,
                                   tlsDone, proxy, builderCalls, hobj>>
               ELSE LET h == proxy[k]
                        attached == Attach(hobj[h], k)
                    IN  /\ initial' = [initial EXCEPT ![k] = res.req]
                        /\ IF res.req.method = S_CONNECT
                           THEN /\ plainOut' = [plainOut EXCEPT
                                                  ![k] = Append(@, ConnectReply)]
                                /\ hobj' = [hobj EXCEPT ![h] = attached]
                                /\ pc' = [pc EXCEPT ![k] = "drain"]
                                /\ UNCHANGED <<exc, writerClosed>>
                           ELSE /\ CallConnected(k, h,
                                     [attached EXCEPT !.request = res.req])
                                /\ UNCHANGED plainOut
                        /\ UNCHANGED <<drained, tlsStarted, tlsHost, tlsCtx, tlsDone,
                                       proxy, builderCalls>>
    /\ UNCHANGED <<fw, handlerClass, tls, hr, rb>>

\* await proxy.client_writer.drain() returns and start_tls begins the
\* handshake, or drain raises.
Drain(k) ==
    /\ pc[k] = "drain"
    /\ \/ /\ drained' = [drained EXCEPT ![k] = TRUE]
          /\ tlsStarted' = [tlsStarted EXCEPT ![k] = TRUE]
          /\ tlsHost' = [tlsHost EXCEPT ![k] = initial[k].host]
          /\ tlsCtx' = [tlsCtx EXCEPT ![k] = ssl_context]
          /\ pc' = [pc EXCEPT ![k] = "tls"]
          /\ UNCHANGED <<exc, writerClosed>>
       \/ /\ EndTask(k, "ConnectionResetError")
          /\ UNCHANGED <<drained, tlsStarted, tlsHost, tlsCtx, tlsCtx>>
    /\ UNCHANGED <<initial, plainOut, tlsDone, proxy, builderCalls, hobj>>
    /\ UNCHANGED <<fw, handlerClass, tls, hr, rb>>
    /\ UNCHANGED gotLine

\* await proxy.client_writer.start_tls(...): the handshake completes or fails.
StartTls(k) ==
    /\ pc[k] = "tls"
    /\ \/ /\ tlsDone' = [tlsDone EXCEPT ![k] = TRUE]
          /\ pc' = [pc EXCEPT ![k] = "inner"]
          /\ UNCHANGED <<exc, writerClosed>>
       \/ /\ EndTask(k, "SSLError")
          /\ UNCHANGED tlsDone
    /\ UNCHANGED <<initial, plainOut, drained, tlsStarted, tlsHost, tlsCtx, proxy,
                   builderCalls, hobj>>
    /\ UNCHANGED <<fw, handlerClass, tls, hr, rb>>
    /\ UNCHANGED gotLine

\* handle_connection from the second _parse_request to the handler's
\* callback: the port and the scheme are copied from the CONNECT request.
ParseInner(k) ==
    /\ pc[k] = "inner"
    /\ \E msg \in InnerMessages :
         \E res \in ParseRequest(k, msg, TRUE) :
            IF res.err # "none"
            THEN /\ EndTask(k, res.err)
                 /\ UNCHANGED hobj
            ELSE LET h == proxy[k]
                     request == [res.req EXCEPT !.port = initial[k].port,
                                                !.scheme = "https"]
                 IN  CallConnected(k, h, [hobj[h] EXCEPT !.request = request])
    /\ UNCHANGED <<initial, plainOut, drained, tlsStarted, tlsHost, tlsCtx, tlsDone,
                   proxy, builderCalls>>
    /\ UNCHANGED <<fw, handlerClass, tls, hr, rb>>
    /\ UNCHANGED gotLine

\* proxy.client_connected() returns.
HandlerReturns(k) ==
    /\ pc[k] = "handler"
    /\ EndTask(k, "none")
    /\ UNCHANGED <<initial, plainOut, drained, tlsStarted, tlsHost, tlsCtx, tlsDone,
                   proxy, builderCalls, hobj>>
    /\ UNCHANGED <<fw, handlerClass, tls, hr, rb>>
    /\ UNCHANGED gotLine

\* proxy.client_connected() raises.
HandlerRaises(k) ==
    /\ pc[k] = "handler"
    /\ EndTask(k, "HandlerError")
    /\ UNCHANGED <<initial, plainOut, drained, tlsStarted, tlsHost, tlsCtx, tlsDone,
                   proxy, builderCalls, hobj>>
    /\ UNCHANGED <<fw, handlerClass, tls, hr, rb>>
    /\ UNCHANGED gotLine

\* The task is cancelled while it waits at an await inside the with block.
Cancel(k) ==
    /\ pc[k] \in {"parse", "drain", "tls", "inner", "handler"}
    /\ EndTask(k, "CancelledError")
    /\ UNCHANGED <<initial, plainOut, drained, tlsStarted, tlsHost, tlsCtx, tlsDone,
                   proxy, builderCalls, hobj>>
    /\ UNCHANGED <<fw, handlerClass, tls, hr, rb>>
    /\ UNCHANGED gotLine

\* The task is cancelled before its first step: CancelledError is thrown
\* into the coroutine before it enters `with closing(writer)`.
CancelBeforeStart(k) ==
    /\ pc[k] = "created"
    /\ pc' = [pc EXCEPT ![k] = "ended"]
    /\ exc' = [exc EXCEPT ![k] = "CancelledError"]
    /\ UNCHANGED <<initial, plainOut, drained, tlsStarted, tlsHost, tlsCtx, tlsDone,
                   writerClosed, proxy, builderCalls, hobj>>
    /\ UNCHANGED <<fw, handlerClass, tls, hr, rb>>
    /\ UNCHANGED gotLine

(***************************************************************************)
(* The forwarder: HTTPSForwardProxyHandler.forward_http_request on one     *)
(* handler object.  A hook is a call that returns; an await of the         *)
(* network returns, raises, or is where the task is cancelled.             *)
(***************************************************************************)
\* https_forward_proxy_handler.py:8
MAX_CHUNK_SIZE == 4096

\* The header block of an upstream response, as _forward_response_body reads
\* it: Content-Length ("absent", "empty" for an empty value, "bad" for a
\* value int() rejects, or "num" with its value) and the value of
\* Transfer-Encoding, None without one.
RespHeaders(cl, n, te) == [cl |-> cl, n |-> n, te |-> te]

S_CHUNKED == <<"c", "h", "u", "n", "k", "e", "d">>
\* Chunked
S_CHUNKED_MIXED == <<"C", "h", "u", "n", "k", "e", "d">>

ResponseHeaders ==
    {RespHeaders("absent", 0, None), RespHeaders("absent", 0, S_CHUNKED_MIXED),
     RespHeaders("absent", 0, <<"g", "z", "i", "p">>),
     RespHeaders("num", 0, None), RespHeaders("num", 2, None),
     RespHeaders("num", MAX_CHUNK_SIZE + 1, S_CHUNKED),
     RespHeaders("bad", 0, None), RespHeaders("empty", 0, S_CHUNKED)}

\* No response parsed yet.
NoResponse == RespHeaders("none", 0, None)

\* The headers of the client's request, by name.
RequestHeaders == <<"Host">>

\* What on_request_received does before it calls forward_http_request:
\* nothing (HTTPSForwardProxyHandler), or it appends a header to the request
\* first (ModifyHeaderHandler of examples/modify_request_header.py).
RequestHooks == {"HTTPSForwardProxyHandler", "ModifyHeaderHandler"}

\* self.request.headers when on_request_received calls
\* forward_http_request.
HeadersAfterHook(cls) ==
    IF cls = "ModifyHeaderHandler"
    THEN Append(RequestHeaders, "X-Custom-Header")
    ELSE RequestHeaders

\* What on_response_received changes in self.response.
ResponseEdits == {"none", "status", "headers"}

FwInit ==
    [pc |-> "idle",          \* where forward_http_request stands
     reqHeaders |-> RequestHeaders,  \* request.headers, by name
     upOut |-> <<>>,         \* what the call wrote to the upstream, in order
     resp |-> NoResponse,    \* the header block parsed into self.response
     respStatus |-> "none",  \* who set the status of self.response
     respHeaders |-> "none", \* who set the headers of self.response
     protoErr |-> "none",    \* the protocol error the upstream made
     calls |-> 0,            \* number of forward calls started
     scheme |-> "",          \* request.scheme of the call
     complete |-> FALSE,     \* _response_complete
     writer |-> 0,           \* upstream_writer: 0 is None, else the call that set it
     open |-> {},            \* the calls whose upstream connection is open
     began |-> FALSE,        \* the call opened its upstream connection
     connectErr |-> "none",  \* the error open_connection raised in the call
     hooks |-> <<>>,         \* the hooks invoked in the call, in order
     out |-> <<>>,           \* what the call wrote to the client, in order
     mode |-> "none",        \* body relay mode of the call
     remaining |-> 0,        \* fixed length: bytes still to read
     size |-> 0,             \* chunked: declared size of the chunk being read
     reads |-> 0,            \* upstream body reads that returned data
     fed |-> <<>>,           \* length of each chunk given to on_response_chunk
     res |-> <<>>,           \* length of what it returned for each, -1 for None
     body |-> <<>>,          \* length of each piece of body data written
     decl |-> <<>>,          \* chunked: the size declared for each chunk fed
     eof |-> FALSE,          \* a body read returned b"": the upstream closed
     rest |-> 0,             \* chunked: bytes of the chunk the read left behind
     cut |-> FALSE,          \* chunked: the relay stopped at such a remainder
     pend |-> "none",        \* what the finally block will continue with
     result |-> "none"]      \* how the last call ended

HookCount(f, name) == Cardinality({i \in 1..Len(f.hooks) : f.hooks[i] = name})

\* The call ends: it returns ("returned") or raises p.
Finish(f, p) == [f EXCEPT !.pc = "idle", !.pend = "none", !.result = p]

\* The finally block of forward_http_request, up to await wait_closed().
RunFinally(f, p) ==
    IF f.writer # 0
    THEN [f EXCEPT !.open = @ \ {f.writer}, !.pc = "close", !.pend = p]
    ELSE Finish(f, p)

\* The completion guard: `if not self._response_complete: ...`.
CompleteOnce(f) ==
    IF ~f.complete
    THEN [f EXCEPT !.complete = TRUE,
                   !.hooks = Append(@, "on_response_complete")]
    ELSE f

\* `except Exception:` of forward_http_request.  CancelledError is a
\* BaseException and passes it by.
ExceptClause(f, e) == IF e = "Exception" THEN CompleteOnce(f) ELSE f

\* e is raised in forward_http_request outside _forward_response_body.
RaiseInForward(f, e) == RunFinally(ExceptClause(f, e), e)

\* The finally block of _forward_response_body.
BodyFinally(f) == CompleteOnce(f)

\* e is raised inside the try block of _forward_response_body.
RaiseInBody(f, e) == RunFinally(ExceptClause(BodyFinally(f), e), e)

\* _forward_response_body ran to its end: flush returned.
BodyDone(f) == RunFinally(BodyFinally(f), "returned")

\* await self.on_error(e): the hook runs and returns.
OnError(f, e) == [f EXCEPT !.hooks = Append(@, e)]

\* An except clause that calls the hook and lets the error go on.
OnTlsError_Reraise(f) ==
    RaiseInForward(OnError([f EXCEPT !.connectErr = "SSLError"],
                           "on_error(SSLError)"),
                   "Exception")

\* `except ssl.SSLError` around open_connection: the error hook, then return.
OnTlsError(f) ==
    RunFinally(OnError([f EXCEPT !.connectErr = "SSLError"],
                       "on_error(SSLError)"),
               "returned")

\* on_request_received of class cls runs on a new request and calls
\* forward_http_request: the flag is reset and open_connection is awaited.
StartCall(f, scheme, cls) ==
    [f EXCEPT !.pc = "connect", !.calls = @ + 1, !.scheme = scheme,
              !.reqHeaders = HeadersAfterHook(cls), !.upOut = <<>>,
              !.resp = NoResponse, !.respStatus = "none",
              !.respHeaders = "none", !.protoErr = "none",
              !.complete = FALSE, !.began = FALSE, !.connectErr = "none",
              !.hooks = <<"on_request_received">>, !.out = <<>>,
              !.mode = "none", !.remaining = 0,
              !.size = 0, !.reads = 0, !.fed = <<>>, !.res = <<>>,
              !.body = <<>>, !.decl = <<>>, !.eof = FALSE, !.rest = 0,
              !.cut = FALSE, !.pend = "none", !.result = "none"]

FwdCall ==
    /\ fw.pc = "idle"
    /\ fw.calls < MaxCalls
    /\ fw.result # "CancelledError"
    /\ \E scheme \in {"http", "https"}, cls \in RequestHooks :
          fw' = StartCall(fw, scheme, cls)
    /\ UNCHANGED <<serverVars, tls, hr, rb>>

\* A forwarder that sends the headers the client sent.
RequestHead_AsReceived(f) == <<"request_line">> \o RequestHeaders \o <<"blank">>

\* The request line, one line per header of self.request.headers, and the
\* blank line, as written to the upstream.
RequestHead(f) == <<"request_line">> \o f.reqHeaders \o <<"blank">>

\* open_connection returns: the request line and the headers are written
\* upstream and the request body is read from the client.
FwdConnectOk ==
    /\ fw.pc = "connect"
    /\ fw' = [fw EXCEPT !.writer = fw.calls, !.open = @ \cup {fw.calls},
                        !.began = TRUE, !.upOut = RequestHead(fw),
                        !.pc = "reqbody"]
    /\ UNCHANGED <<serverVars, tls, hr, rb>>

\* open_connection(..., ssl=ssl_context) raises ssl.SSLError.
FwdConnectTlsError ==
    /\ fw.pc = "connect"
    /\ fw.scheme = "https"
    /\ fw' = OnTlsError(fw)
    /\ UNCHANGED <<serverVars, tls, hr, rb>>

\* open_connection raises another OSError (refused, unreachable, DNS).
FwdConnectOsError ==
    /\ fw.pc = "connect"
    /\ fw' = RaiseInForward([fw EXCEPT !.connectErr = "OSError"], "Exception")
    /\ UNCHANGED <<serverVars, tls, hr, rb>>

\* read_request_body: the body is read from the client and written upstream.
FwdRequestBody ==
    /\ fw.pc = "reqbody"
    /\ \/ fw' = [fw EXCEPT !.pc = "drain"]
       \/ fw' = RaiseInForward(fw, "Exception")
    /\ UNCHANGED <<serverVars, tls, hr, rb>>

\* await self.upstream_writer.drain()
FwdDrain ==
    /\ fw.pc = "drain"
    /\ \/ fw' = [fw EXCEPT !.pc = "status"]
       \/ fw' = RaiseInForward(fw, "Exception")
    /\ UNCHANGED <<serverVars, tls, hr, rb>>

\* The status line: read and parsed, empty (ConnectionError), or not a status
\* line (parse_status_line raises), or the read raises.
FwdStatusLine ==
    /\ fw.pc = "status"
    /\ \/ fw' = [fw EXCEPT !.pc = "headers"]
       \/ fw' = RaiseInForward(fw, "Exception")
       \* readline returns b"": raise ConnectionError
       \/ fw' = RaiseInForward([fw EXCEPT !.protoErr = "no_status_line"],
                               "Exception")
    /\ UNCHANGED <<serverVars, tls, hr, rb>>

\* transfer_encoding and "chunked" in transfer_encoding.lower()
IsChunked(te) ==
    /\ te # None
    /\ \E i \in 1..Len(te) :
          i + Len(S_CHUNKED) - 1 <= Len(te)
          /\ SubSeq(Lower(te), i, i + Len(S_CHUNKED) - 1) = S_CHUNKED

\* The mode _forward_response_body chooses.  `if content_length_header:`
\* an empty value counts as no header.
BodyMode(h) ==
    IF h.cl \in {"num", "bad"} THEN "fixed"
    ELSE IF IsChunked(h.te) THEN "chunked"
    ELSE "eof"

\* _forward_response_body up to its first await.
EnterBody(f, h) ==
    IF h.cl = "bad" THEN RaiseInBody(f, "Exception")
    ELSE IF BodyMode(h) = "fixed"
         THEN IF h.n > 0
              THEN [f EXCEPT !.mode = "fixed", !.remaining = h.n, !.pc = "body"]
              ELSE [f EXCEPT !.mode = "fixed", !.pc = "flush"]
         ELSE IF BodyMode(h) = "chunked"
              THEN [f EXCEPT !.mode = "chunked", !.pc = "chunksize"]
              ELSE [f EXCEPT !.mode = "eof", !.pc = "body"]

\* A forwarder that writes the status line before it calls the hook.
ReadHead_WriteFirst(f, h) ==
    [f EXCEPT !.resp = h, !.respStatus = "upstream", !.respHeaders = "upstream",
              !.hooks = Append(@, "on_response_received"),
              !.out = Append(@, "status_line"), !.pc = "received"]

\* The header block is read to its blank line and parsed into
\* self.response; on_response_received is awaited.
ReadHead(f, h) ==
    [f EXCEPT !.resp = h, !.respStatus = "upstream", !.respHeaders = "upstream",
              !.hooks = Append(@, "on_response_received"), !.pc = "received"]

\* on_response_received changes self.response: its status, or its headers,
\* from which it removes Content-Length.
EditResponse(f, edit) ==
    [f EXCEPT !.respStatus = IF edit = "status" THEN "handler" ELSE @,
              !.respHeaders = IF edit = "headers" THEN "handler" ELSE @,
              !.resp = IF edit = "headers"
                       THEN RespHeaders("absent", 0, f.resp.te) ELSE @]

\* self.write_response(status_line): the bytes read from the upstream.
StatusOut(f) == "status_line"

\* The header lines written from self.response.headers.
HeadersOut(f) ==
    IF f.respHeaders = "handler" THEN "headers(handler)" ELSE "headers(upstream)"

\* A relay that chooses its mode from the headers the upstream sent.
ForwardHead_AsReceived(f, h) ==
    EnterBody([f EXCEPT !.out = @ \o <<StatusOut(f), HeadersOut(f), "blank">>],
              h)

\* The hook has returned, h being the headers as they were before it:
\* status line, headers and blank line are written to the client and the
\* body relay starts on self.response.headers.
ForwardHead(f, h) ==
    EnterBody([f EXCEPT !.out = @ \o <<StatusOut(f), HeadersOut(f), "blank">>],
              f.resp)

\* await self.on_response_received() returns or raises.
FwdResponseReceived ==
    /\ fw.pc = "received"
    /\ \/ \E edit \in ResponseEdits :
            fw' = ForwardHead(EditResponse(fw, edit), fw.resp)
       \/ fw' = RaiseInForward(fw, "Exception")
    /\ UNCHANGED <<serverVars, tls, hr, rb>>

FwdHeaders ==
    /\ fw.pc = "headers"
    /\ \/ \E h \in ResponseHeaders : fw' = ReadHead(fw, h)
       \/ fw' = RaiseInForward(fw, "Exception")
       \* The upstream closes before the blank line: readline returns b""
       \* at once, forever, and the loop never ends.
       \/ fw' = [fw EXCEPT !.pc = "spin"]
    /\ UNCHANGED <<serverVars, tls, hr, rb>>

\* What on_response_chunk may return for a chunk of n bytes: the chunk, a
\* chunk of another length, or None (-1).
HookResults(n) == {n, n + 1, -1}

\* A relay that writes the chunk it read, whatever the hook returned.
HookChunk_WriteRead(f, tag, n) ==
    {[f EXCEPT !.hooks = Append(@, "on_response_chunk"),
               !.fed = Append(@, n), !.res = Append(@, r),
               !.body = Append(@, n), !.out = Append(@, tag)] :
        r \in HookResults(n)}

\* processed_chunk = await self.on_response_chunk(chunk) on a chunk of n
\* bytes, and the write of the result unless it is None.
HookChunk(f, tag, n) ==
    {IF r = -1
     THEN [f EXCEPT !.hooks = Append(@, "on_response_chunk"),
                    !.fed = Append(@, n), !.res = Append(@, r)]
     ELSE [f EXCEPT !.hooks = Append(@, "on_response_chunk"),
                    !.fed = Append(@, n), !.res = Append(@, r),
                    !.body = Append(@, r), !.out = Append(@, tag)] :
        r \in HookResults(n)}

\* chunk_size = min(remaining, MAX_CHUNK_SIZE), or MAX_CHUNK_SIZE when the
\* relay reads to the end of the stream.
ChunkSize(f) ==
    IF f.mode = "fixed"
    THEN IF f.remaining < MAX_CHUNK_SIZE THEN f.remaining ELSE MAX_CHUNK_SIZE
    ELSE MAX_CHUNK_SIZE

\* One pass of the fixed-length loop or of the read-until-EOF loop: read
\* returns between one byte and chunk_size bytes, or b"".
FwdBodyRead ==
    /\ fw.pc = "body"
    /\ \/ /\ fw.reads < MaxReads
          /\ \E n \in {1, ChunkSize(fw)} :
               \E g \in HookChunk(fw, "body", n) :
                  LET left == g.remaining - n
                  IN  fw' = IF fw.mode = "fixed"
                            THEN [g EXCEPT !.reads = @ + 1, !.remaining = left,
                                           !.pc = IF left > 0 THEN "body" ELSE "flush"]
                            ELSE [g EXCEPT !.reads = @ + 1]
       \* read returns b"": the upstream closed
       \/ fw' = [fw EXCEPT !.eof = TRUE, !.pc = "flush"]
       \/ fw' = RaiseInBody(fw, "Exception")
    /\ UNCHANGED <<serverVars, tls, hr, rb>>

\* _forward_chunked_response: the size line is read and written.  After a
\* read that left part of a chunk behind, the line read is that remainder
\* (the chunk data of the inputs end in no hexadecimal number).
FwdChunkSize ==
    /\ fw.pc = "chunksize"
    /\ \/ /\ fw.reads < MaxReads
          /\ fw.rest = 0 /\ ~fw.eof
          /\ \E s \in {1, 3} :
               fw' = [fw EXCEPT !.out = Append(@, "sizeline"), !.size = s,
                                !.pc = "chunkdata"]
       \/ /\ fw.rest = 0 /\ ~fw.eof
          /\ fw' = [fw EXCEPT !.out = Append(@, "zerochunk"), !.pc = "trailers"]
       \* not a hexadecimal number, or b"" at end of stream: break
       \/ /\ fw.rest = 0
          /\ fw' = [fw EXCEPT !.out = Append(@, "sizeline"),
                              !.protoErr = "bad_chunk_size", !.pc = "flush"]
       \* the remainder of the chunk is written as a size line: break
       \/ /\ fw.rest > 0
          /\ fw' = [fw EXCEPT !.out = Append(@, "rest"), !.cut = TRUE,
                              !.pc = "flush"]
       \/ fw' = RaiseInBody(fw, "Exception")
    /\ UNCHANGED <<serverVars, tls, hr, rb>>

\* _forward_chunked_response: read(chunk_size + 2) returns n bytes, all of
\* the chunk and its CRLF or fewer; with two bytes or more all but the last
\* two are given to the hook and the last two are written as the CRLF.
FwdChunkData ==
    /\ fw.pc = "chunkdata"
    /\ \/ \E n \in {0, 1, 2, fw.size + 2} :
            IF n >= 2
            THEN \E g \in HookChunk(fw, "chunk", n - 2) :
                    fw' = [g EXCEPT !.out = Append(@, "crlf"), !.reads = @ + 1,
                                    !.decl = Append(@, fw.size),
                                    !.rest = fw.size + 2 - n,
                                    !.pc = "chunksize"]
            ELSE fw' = [fw EXCEPT !.out = Append(@, "short"), !.reads = @ + 1,
                                  !.eof = (n = 0),
                                  !.rest = IF n = 0 THEN 0 ELSE fw.size + 2 - n,
                                  !.pc = "chunksize"]
       \/ fw' = RaiseInBody(fw, "Exception")
    /\ UNCHANGED <<serverVars, tls, hr, rb>>

\* _forward_chunked_response: the trailers after the zero-size chunk.
FwdTrailers ==
    /\ fw.pc = "trailers"
    /\ \/ fw' = [fw EXCEPT !.out = Append(@, "blank"), !.pc = "flush"]
       \/ /\ fw.reads < MaxReads
          /\ fw' = [fw EXCEPT !.out = Append(@, "trailer"), !.reads = @ + 1]
       \/ fw' = RaiseInBody(fw, "Exception")
       \* readline returns b"" at end of stream, forever
       \/ fw' = [fw EXCEPT !.pc = "spin"]
    /\ UNCHANGED <<serverVars, tls, hr, rb>>

\* await self.flush_response(), then the finally block and the return.
FwdFlush ==
    /\ fw.pc = "flush"
    /\ \/ fw' = BodyDone(fw)
       \/ fw' = RaiseInBody(fw, "Exception")
    /\ UNCHANGED <<serverVars, tls, hr, rb>>

\* A finally block that calls the hook and raises the close error.
CloseError_Propagate(f) == Finish(OnError(f, "on_error(close)"), "Exception")

\* wait_closed() raises ssl.SSLError, ConnectionResetError or OSError: the
\* except clause awaits on_error and the finally block ends, so the call
\* goes on as it would have without the error.
CloseError(f) == Finish(OnError(f, "on_error(close)"), f.pend)

\* await self.upstream_writer.wait_closed() in the finally block.
FwdClose ==
    /\ fw.pc = "close"
    /\ \/ fw' = Finish(fw, fw.pend)
       \/ fw' = CloseError(fw)
    /\ UNCHANGED <<serverVars, tls, hr, rb>>

\* The task is cancelled while forward_http_request waits at an await.
FwdCancel ==
    /\ \/ /\ fw.pc \in {"connect", "reqbody", "drain", "status", "headers",
                       "received"}
          /\ fw' = RaiseInForward(fw, "CancelledError")
       \/ /\ fw.pc \in {"body", "chunksize", "chunkdata", "trailers", "flush"}
          /\ fw' = RaiseInBody(fw, "CancelledError")
       \* wait_closed() of a writer an earlier call closed does not suspend
       \/ /\ fw.pc = "close"
          /\ fw.began
          /\ fw' = Finish(fw, "CancelledError")
    /\ UNCHANGED <<serverVars, tls, hr, rb>>

(***************************************************************************)
(* tls_store.py: TLSStore.  A certificate is identified by the number of   *)
(* the _generate_cert run that made it: every run draws a new key and a    *)
(* new serial number.  get_ssl_context evaluates the argument              *)
(* self._generate_cert(domain) first and calls setdefault with its value   *)
(* afterwards; callers on other threads may run between the two.           *)
(***************************************************************************)
Domains == {<<"a">>, <<"b">>, <<"c">>}
Callers == 1..MaxCallers

TlsInit ==
    [store |-> [d \in Domains |-> 0],       \* self._store, 0: no entry
     runs |-> 0,                            \* runs of _generate_cert
     minted |-> [d \in Domains |-> 0],      \* runs of it per domain
     at |-> [c \in Callers |-> "idle"],     \* where each caller stands
     domain |-> [c \in Callers |-> None],   \* the domain it asked for
     fresh |-> [c \in Callers |-> 0],       \* the certificate it generated
     returned |-> [d \in Domains |-> {}]]   \* certificates loaded into the
                                            \* contexts returned per domain

\* A store that assigns where dict.setdefault only fills an empty slot.
SetDefault_Overwrite(store, d, v) == [store EXCEPT ![d] = v]

\* dict.setdefault(d, v) on self._store
SetDefault(store, d, v) == IF store[d] = 0 THEN [store EXCEPT ![d] = v] ELSE store

\* self._generate_cert(domain), the argument of setdefault
GenerateCert(c) ==
    /\ tls.at[c] = "idle"
    /\ tls.runs < MaxMints
    /\ \E d \in Domains :
          tls' = [tls EXCEPT !.runs = @ + 1,
                             !.minted[d] = @ + 1,
                             !.at[c] = "generated",
                             !.domain[c] = d,
                             !.fresh[c] = tls.runs + 1]
    /\ UNCHANGED <<serverVars, fw, hr, rb>>

\* key, cert = self._store.setdefault(...); the context that loads them is
\* returned.
GetSslContext(c) ==
    /\ tls.at[c] = "generated"
    /\ LET d == tls.domain[c]
           store == SetDefault(tls.store, d, tls.fresh[c])
       IN  tls' = [tls EXCEPT !.store = store,
                              !.returned[d] = @ \cup {store[d]},
                              !.at[c] = "idle",
                              !.domain[c] = None,
                              !.fresh[c] = 0]
    /\ UNCHANGED <<serverVars, fw, hr, rb>>

(***************************************************************************)
(* http_request.py: one HTTPRequest object and the calls of its methods.   *)
(***************************************************************************)
\* Request lines given to parse_request_line.
\* GET http://a/ HTTP/1.1
LineGetNoPort == Line(S_GET, S_HTTP \o <<"a", "/">>)
\* CONNECT a:b:8 HTTP/1.1
LineConnectTwoColons == Line(S_CONNECT, <<"a", ":", "b", ":", "8">>)
\* GET / HTTP/1.1 x
LineFourTokens == S_GET \o <<" ", "/", " ">> \o S_VERSION \o <<" ", "x", CRLF>>
\* GET  / HTTP/1.1, with two spaces after the method
LineDoubleSpace == S_GET \o <<" ", " ", "/", " ">> \o S_VERSION \o <<CRLF>>
\* a space, then GET / HTTP/1.1
LineLeadingSpace == <<" ">> \o LineGetOrigin
\* GET / HTTP/1.1, a space, then the line end
LineTrailingSpace == S_GET \o <<" ", "/", " ">> \o S_VERSION \o <<" ", CRLF>>

RequestLines ==
    {LineGetAbsolute, LineGetOrigin, LineGetNoPort, LineConnectTwo,
     LineConnectThree, LineConnectTwoColons, LineConnectNoColon,
     LineTwoTokens, LineFourTokens, LineDoubleSpace, LineLeadingSpace,
     LineTrailingSpace, <<CRLF>>}

\* Header names and values, the values as they follow the colon.
HeaderNames == {<<"A">>, <<"a">>, <<"B">>}
HeaderValues == {<<"1">>, <<" ", "1">>, <<" ", "2">>}
HeaderPairs == {<<n, v>> : n \in HeaderNames, v \in HeaderValues}

\* The header lists of at most MaxHeaders headers.
HeaderLists == UNION {[1..n -> HeaderPairs] : n \in 0..MaxHeaders}

\* The header block a client sends for a list: name, colon, value and CRLF
\* for every header, then the blank line.
RECURSIVE Block(_)
Block(l) ==
    IF l = <<>> THEN <<CRLF>>
    ELSE HeaderLine(Head(l)[1], Head(l)[2]) \o Block(Tail(l))

\* The names get_first_header is asked for.
HeaderKeys == {<<"A">>, <<"a">>, <<"B">>, <<"b">>, <<"X">>}

HrInit ==
    [step |-> "new",         \* the last method called on the object
     line |-> <<>>,          \* the line given to parse_request_line
     lineRes |-> Raised("none"),  \* what parse_request_line did
     given |-> <<>>,         \* the header list the object started from
     origin |-> "none",      \* "parsed" from a block or "assigned"
     headers |-> <<>>,       \* self.headers
     prev |-> <<>>,          \* self.headers before the last to_raw_headers
     raw |-> <<>>,           \* what the last to_raw_headers returned
     prevRaw |-> <<>>,       \* what the one before it returned
     cycles |-> 0,           \* calls of to_raw_headers
     key |-> None,           \* the argument of the last get_first_header
     first |-> None]         \* what it returned

\* request.parse_request_line(line) on a new object
ParseLineCall ==
    /\ hr.step = "new"
    /\ \E line \in RequestLines :
          hr' = [hr EXCEPT !.step = "line", !.line = line,
                           !.lineRes = ParseRequestLine(line)]
    /\ UNCHANGED <<serverVars, fw, tls, rb>>

\* request.parse_headers(block) on a new object
ParseHeadersCall ==
    /\ hr.step = "new"
    /\ \E l \in HeaderLists :
          hr' = [hr EXCEPT !.step = "headers", !.origin = "parsed",
                           !.given = l,
                           !.headers = ParseHeaders(Block(l)).headers]
    /\ UNCHANGED <<serverVars, fw, tls, rb>>

\* request.headers = [...] on a new object
SetHeaders ==
    /\ hr.step = "new"
    /\ \E l \in HeaderLists :
          hr' = [hr EXCEPT !.step = "headers", !.origin = "assigned",
                           !.given = l, !.headers = l]
    /\ UNCHANGED <<serverVars, fw, tls, rb>>

\* raw = request.to_raw_headers()
ToRawCall ==
    /\ hr.step \in {"headers", "reparsed"}
    /\ hr.cycles < MaxCycles
    /\ hr' = [hr EXCEPT !.step = "raw", !.cycles = @ + 1,
                        !.prevRaw = hr.raw,
                        !.raw = ToRawHeaders(hr.headers),
                        !.key = None, !.first = None]
    /\ UNCHANGED <<serverVars, fw, tls, rb>>

\* request.parse_headers(raw) on what to_raw_headers returned
ReparseCall ==
    /\ hr.step = "raw"
    /\ hr' = [hr EXCEPT !.step = "reparsed", !.prev = hr.headers,
                        !.headers = ParseHeaders(hr.raw).headers]
    /\ UNCHANGED <<serverVars, fw, tls, rb>>

\* request.get_first_header(key)
GetFirstCall ==
    /\ hr.step \in {"headers", "reparsed"}
    /\ \E key \in HeaderKeys :
          hr' = [hr EXCEPT !.key = key,
                           !.first = GetFirstHeader(hr.headers, key)]
    /\ UNCHANGED <<serverVars, fw, tls, rb>>

NextRequest ==
    \/ ParseLineCall
    \/ ParseHeadersCall
    \/ SetHeaders
    \/ ToRawCall
    \/ ReparseCall
    \/ GetFirstCall

(***************************************************************************)
(* https_proxy_handler.py: read_request_body, and lines 94-113 of           *)
(* forward_http_request, which write the request head, write every chunk   *)
(* the generator yields, drain, and read the status line.  A length is a   *)
(* record: "absent" for no Content-Length header, "bad" for a value int()  *)
(* rejects, "num" with the value int() returns.                            *)
(***************************************************************************)
\* What self.request.headers.first("Content-Length") gives for the requests
\* a client may send: no header, 0, 2, 4097, -1, or abc.
RequestLengths ==
    {[cl |-> "absent", n |-> 0], [cl |-> "num", n |-> 0],
     [cl |-> "num", n |-> 2], [cl |-> "num", n |-> MAX_CHUNK_SIZE + 1],
     [cl |-> "num", n |-> -1], [cl |-> "bad", n |-> 0]}

RbInit ==
    [pc |-> "idle",      \* where forward_http_request stands
     cl |-> [cl |-> "none", n |-> 0],  \* Content-Length of the request
     length |-> 0,       \* `length` of the generator
     yielded |-> <<>>,   \* length of each chunk the generator yielded
     upOut |-> <<>>,     \* what was written to the upstream, in order
     drained |-> FALSE,  \* upstream_writer.drain() returned
     eof |-> FALSE,      \* the client closed: read returned b""
     reads |-> 0]        \* reads of the client that returned data

\* chunk_size = min(length, MAX_CHUNK_SIZE)
RequestChunkSize(length) ==
    IF length < MAX_CHUNK_SIZE THEN length ELSE MAX_CHUNK_SIZE

\* What await self.client_reader.read(size) may return, by length: up to
\* size bytes, b"" for size 0, and for a negative size all the bytes up to
\* the end of the stream, however many.
ReadLengths(size) ==
    IF size > 0 THEN {n \in {1, 2, size} : n <= size}
    ELSE IF size = 0 THEN {}
    ELSE {1, MAX_CHUNK_SIZE + 1}

\* The request line, the headers and the blank line are written, and the
\* first step of the generator runs up to its first read.
BodyStart ==
    /\ rb.pc = "idle"
    /\ \E c \in RequestLengths :
          rb' = [rb EXCEPT
                   !.cl = c,
                   !.upOut = <<"request_line", "headers", "blank">>,
                   !.length = IF c.cl = "num" THEN c.n ELSE 0,
                   !.pc = IF c.cl = "absent" THEN "drain"
                          ELSE IF c.cl = "bad" THEN "raised"
                          ELSE "read"]
    /\ UNCHANGED <<serverVars, fw, tls, hr>>

\* chunk = await self.client_reader.read(chunk_size): a chunk is yielded
\* and written upstream, or the read returns b"" and the generator ends.
BodyRead ==
    /\ rb.pc = "read"
    /\ \/ /\ rb.reads < MaxBodyReads
          /\ \E n \in ReadLengths(RequestChunkSize(rb.length)) :
                rb' = [rb EXCEPT
                         !.reads = @ + 1,
                         !.yielded = Append(@, n),
                         !.upOut = Append(@, "chunk"),
                         !.length = @ - n,
                         !.pc = IF rb.length - n <= 0 THEN "drain" ELSE "read"]
       \/ rb' = [rb EXCEPT !.eof = (RequestChunkSize(rb.length) # 0),
                           !.pc = "drain"]
    /\ UNCHANGED <<serverVars, fw, tls, hr>>

\* await self.upstream_writer.drain()
BodyDrain ==
    /\ rb.pc = "drain"
    /\ rb' = [rb EXCEPT !.drained = TRUE, !.pc = "status"]
    /\ UNCHANGED <<serverVars, fw, tls, hr>>

\* status_line = await self.upstream_reader.readline()
BodyStatus ==
    /\ rb.pc = "status"
    /\ rb' = [rb EXCEPT !.pc = "done"]
    /\ UNCHANGED <<serverVars, fw, tls, hr>>

NextBody ==
    \/ BodyStart
    \/ BodyRead
    \/ BodyDrain
    \/ BodyStatus

NextStore ==
    \E c \in Callers :
        \/ GenerateCert(c)
        \/ GetSslContext(c)

NextForward ==
    \/ FwdCall
    \/ FwdConnectOk
    \/ FwdConnectTlsError
    \/ FwdConnectOsError
    \/ FwdRequestBody
    \/ FwdDrain
    \/ FwdStatusLine
    \/ FwdHeaders
    \/ FwdResponseReceived
    \/ FwdBodyRead
    \/ FwdChunkSize
    \/ FwdChunkData
    \/ FwdTrailers
    \/ FwdFlush
    \/ FwdClose
    \/ FwdCancel

Init == InitServer /\ fw = FwInit /\ tls = TlsInit /\ hr = HrInit
        /\ rb = RbInit

\* The handler whose forward calls are followed is an
\* HTTPSForwardProxyHandler.
InitForward == Init /\ handlerClass = "HTTPSForwardProxyHandler"

\* One handler object and its forward calls.
SpecForward == InitForward /\ [][NextForward]_vars

\* The same, with the event loop running the task of the call whenever it
\* can take a step.
SpecForwardLive == SpecForward /\ WF_vars(NextForward)

\* One request body read from the client and written upstream.
SpecBody == InitForward /\ [][NextBody]_vars

\* One HTTPRequest object and the calls of its methods.
SpecRequest == Init /\ [][NextRequest]_vars

\* One TLSStore object and the callers of get_ssl_context.
SpecStore == Init /\ [][NextStore]_vars

Next ==
    \E k \in Conns :
        \/ Accept(k)
        \/ TaskStart(k)
        \/ ParseOuter(k)
        \/ Drain(k)
        \/ StartTls(k)
        \/ ParseInner(k)
        \/ HandlerReturns(k)
        \/ HandlerRaises(k)
        \/ Cancel(k)
        \/ CancelBeforeStart(k)

\* The acceptor and its connection tasks.
Spec == Init /\ [][Next]_vars

(***************************************************************************)
(* Properties of the forwarder, checked under SpecForward.                 *)
(***************************************************************************)
ForwardEnded == fw.pc = "idle" /\ fw.calls > 0

\* C1: every forward call that opened its upstream connection has invoked
\* on_response_complete exactly once by the time it returns or raises.
C1_CompleteExactlyOnce ==
    (ForwardEnded /\ fw.began) => HookCount(fw, "on_response_complete") = 1

\* C2: when open_connection of an https request raises ssl.SSLError, on_error
\* is invoked with it, the call returns normally, the forwarder has written
\* nothing to the client and on_response_complete is not invoked.
C2_TlsErrorAborts ==
    (ForwardEnded /\ fw.connectErr = "SSLError") =>
        /\ HookCount(fw, "on_error(SSLError)") = 1
        /\ fw.result = "returned"
        /\ fw.out = <<>>
        /\ HookCount(fw, "on_response_complete") = 0
        /\ ~fw.began

\* A second call on the handler fails with a TLS error and has returned,
\* after closing the writer the first call left in upstream_writer.
C2_Witness ==
    /\ ForwardEnded
    /\ fw.connectErr = "SSLError"
    /\ fw.calls = 2
    /\ fw.writer = 1
    /\ fw.result = "returned"

(***************************************************************************)
(* Properties of the acceptor, checked under Spec.                         *)
(***************************************************************************)
Accepted(k) == pc[k] # "new"

\* The handler's callback was invoked for connection k, or is about to be.
Ready(k) == Accepted(k) /\ hobj[proxy[k]].request.conn = k

\* The client of connection k closed before it sent a request line.
ClosedBeforeLine(k) == pc[k] = "ended" /\ gotLine[k] = "eof"

\* C3: after a CONNECT upgrade the request attached to the handler has the
\* host and the port parsed from the CONNECT target, and scheme https.
C3_TargetOfConnect ==
    \A k \in Conns :
        (Ready(k) /\ initial[k].method = S_CONNECT) =>
            LET request == hobj[proxy[k]].request
            IN  /\ request.host = initial[k].host
                /\ request.port = initial[k].port
                /\ request.scheme = "https"

C5_ConnectedOnceWhenReady ==
    \A k \in Conns :
        Accepted(k) =>
            LET h == hobj[proxy[k]]
            IN  /\ Len(h.seen) <= 1
                /\ Ready(k) => Len(h.seen) = 1
                /\ Len(h.seen) = 1 =>
                      /\ h.reader = k
                      /\ h.writer = k
                      /\ h.request # NoReq
                      /\ h.seen[1] = h.request
                      /\ initial[k] # NoReq
                      /\ initial[k].method = S_CONNECT =>
                            tlsDone[k] /\ h.request.inner
                      /\ initial[k].method # S_CONNECT =>
                            h.request = initial[k]

\* C6: a connection task that has ended has closed its client writer.
C6_WriterClosedOnExit ==
    \A k \in Conns : pc[k] = "ended" => writerClosed[k]

\* C7 as stated: no handler is constructed for a connection whose client
\* closes before it sends a request line.
C7_NoHandlerBuilt ==
    \A k \in Conns : ClosedBeforeLine(k) => proxy[k] = 0

\* C7 as amended: handler_builder was called for the connection when it was
\* accepted, once per accepted connection, and the handler it returned is
\* given no reader, no writer and no request.
C7_HandlerBuiltUnused ==
    /\ builderCalls = Cardinality({k \in Conns : Accepted(k)})
    /\ \A k \in Conns :
          ClosedBeforeLine(k) =>
              /\ proxy[k] \in 1..builderCalls
              /\ hobj[proxy[k]].reader = 0
              /\ hobj[proxy[k]].writer = 0
              /\ hobj[proxy[k]].request = NoReq

\* A client closed before its request line while the other connection of
\* the run reached its handler.
C7_Witness ==
    \E k \in Conns :
        /\ ClosedBeforeLine(k)
        /\ exc[k] = "ConnectionError"
        /\ \E j \in Conns \ {k} : pc[j] = "handler"

\* C8: when the client closes before it sends a request line the task ends,
\* the callback was not invoked and no request was attached.
C8_SilentOnEarlyClose ==
    \A k \in Conns :
        gotLine[k] = "eof" =>
            /\ pc[k] = "ended"
            /\ initial[k] = NoReq
            /\ hobj[proxy[k]].seen = <<>>
            /\ hobj[proxy[k]].request = NoReq

C8_Witness ==
    \E k \in Conns :
        gotLine[k] = "eof" /\ exc[k] = "ConnectionError" /\ writerClosed[k]

\* C9: handler_builder is called once per connection, every connection has
\* a handler of its own, and the connected callback of a handler whose
\* connection is READY is invoked exactly once, with the request parsed from
\* that connection; no handler holds a request of another connection.
C9_OwnHandlerOwnRequest ==
    /\ builderCalls = Cardinality({k \in Conns : Accepted(k)})
    /\ \A j, k \in Conns :
          (Accepted(j) /\ Accepted(k) /\ j # k) => proxy[j] # proxy[k]
    /\ \A k \in Conns :
          Accepted(k) =>
              LET h == hobj[proxy[k]]
              IN  /\ proxy[k] \in 1..builderCalls
                  /\ Len(h.seen) <= 1
                  /\ Ready(k) => Len(h.seen) = 1
                  /\ \A i \in 1..Len(h.seen) : h.seen[i].conn = k
                  /\ h.request.conn \in {0, k}
                  /\ h.reader \in {0, k}
                  /\ h.writer \in {0, k}

\* A step of the task of connection k, or its acceptance.
StepOf(k) ==
    \/ Accept(k)
    \/ TaskStart(k)
    \/ ParseOuter(k)
    \/ Drain(k)
    \/ StartTls(k)
    \/ ParseInner(k)
    \/ HandlerReturns(k)

\* Connection k waits for request bytes, for the handshake or for its
\* handler.
Blocked(k) == pc[k] \in {"parse", "drain", "tls", "inner", "handler"}

\* C10: whatever the other connections wait for, a connection that has not
\* ended can be accepted and can take the next step of its task.
C10_NoWaitingOnOthers ==
    \A k \in Conns :
        (pc[k] # "ended" /\ \E j \in Conns \ {k} : Blocked(j)) =>
            ENABLED StepOf(k)

\* The connection accepted second has run to the end of its handler while
\* the one accepted first still waits for its request.
C10_Witness ==
    \E j, k \in Conns :
        /\ proxy[j] = 1 /\ pc[j] = "parse"
        /\ proxy[k] = 2 /\ pc[k] = "ended" /\ exc[k] = "none"
        /\ Len(hobj[proxy[k]].seen) = 1

\* The task of connection k ended with an exception: the client closed
\* early, the request was malformed, the TLS upgrade failed, the handler
\* raised.
Failed(k) == pc[k] = "ended" /\ exc[k] # "none"

\* C11: after a connection has failed, the acceptor still accepts every
\* connection it is offered and every other connection that has not ended
\* can take the next step of its task.
C11_FailureIsContained ==
    \A k \in Conns :
        (pc[k] # "ended" /\ \E j \in Conns \ {k} : Failed(j)) =>
            /\ ENABLED StepOf(k)
            /\ pc[k] = "new" => ENABLED Accept(k)

\* The handshake of the connection accepted first failed, and the one
\* accepted second is inside its handler's callback with its request.
C11_Witness ==
    \E j, k \in Conns :
        /\ proxy[j] = 1 /\ Failed(j) /\ exc[j] = "SSLError"
        /\ proxy[k] = 2 /\ pc[k] = "handler"
        /\ hobj[proxy[k]].seen = <<hobj[proxy[k]].request>>

(***************************************************************************)
(* Properties of the TLS store, checked under SpecStore.                   *)
(***************************************************************************)

\* C12: every context returned for a domain carries the same certificate,
\* the one the cache holds for that domain; the cache entry of a domain that
\* was served is never replaced or removed.
C12_CacheStable ==
    \A d \in Domains :
        /\ Cardinality(tls.returned[d]) <= 1
        /\ tls.returned[d] # {} =>
              tls.store[d] # 0 /\ tls.returned[d] = {tls.store[d]}

\* Two calls for one domain have returned.
C12_Witness ==
    \E d \in Domains :
        /\ tls.minted[d] >= 2
        /\ tls.returned[d] # {}
        /\ \A c \in Callers : tls.at[c] = "idle"

\* C13: _generate_cert runs at most once for each domain.
C13_MintAtMostOnce ==
    \A d \in Domains : tls.minted[d] <= 1

(***************************************************************************)
(* The acceptor and the TLS store, checked under Spec.                     *)
(***************************************************************************)

\* C14: the handshake of a CONNECT connection uses a context obtained from
\* the TLS store for the host of the CONNECT target.
C14_ContextOfTargetHost ==
    \A k \in Conns :
        tlsStarted[k] =>
            /\ tlsCtx[k].origin = "TLSStore.get_ssl_context"
            /\ tlsCtx[k].domain = initial[k].host

(***************************************************************************)
(* Properties of the forwarder's request and response path, checked under  *)
(* SpecForward.                                                            *)
(***************************************************************************)
ResponseHooks ==
    {"on_response_received", "on_response_chunk", "on_response_complete"}

\* C15: in one forward call on_response_received comes before every
\* on_response_chunk and on_response_complete comes last; nothing is written
\* to the client until on_response_received has returned; the client gets
\* the status line, the headers, the blank line and then the body.
C15_HooksAndBytesInOrder ==
    LET hs == fw.hooks
        out == fw.out
    IN  /\ HookCount(fw, "on_response_received") <= 1
        /\ HookCount(fw, "on_response_complete") <= 1
        /\ \A i \in 1..Len(hs) :
              /\ hs[i] = "on_response_chunk" =>
                    \E j \in 1..(i - 1) : hs[j] = "on_response_received"
              /\ hs[i] = "on_response_received" =>
                    \A j \in 1..(i - 1) : hs[j] \notin ResponseHooks
              /\ hs[i] = "on_response_complete" =>
                    \A j \in (i + 1)..Len(hs) : hs[j] \notin ResponseHooks
        /\ fw.pc \in {"connect", "reqbody", "drain", "status", "headers",
                      "received"} => out = <<>>
        /\ out # <<>> =>
              /\ HookCount(fw, "on_response_received") = 1
              /\ Len(out) >= 3
              /\ out[1] = "status_line"
              /\ out[2] \in {"headers(upstream)", "headers(handler)"}
              /\ out[3] = "blank"
              /\ \A i \in 4..Len(out) :
                    out[i] \in {"body", "sizeline", "zerochunk", "chunk",
                                "crlf", "short", "rest", "trailer", "blank"}

\* A chunked response was relayed to its end: one chunk went through the
\* chunk hook and the call returned.
C15_Witness ==
    /\ ForwardEnded
    /\ fw.result = "returned"
    /\ fw.mode = "chunked"
    /\ fw.hooks = <<"on_request_received", "on_response_received",
                    "on_response_chunk", "on_response_complete">>
    /\ fw.out[Len(fw.out)] = "blank"
    /\ Len(fw.out) > 3

\* C16: on_request_received has run before anything is written to the
\* upstream, and the request head written there has the headers the request
\* holds when the hook calls forward_http_request, a header the hook
\* appended included.
C16_RequestHookBeforeUpstream ==
    /\ fw.calls > 0 => fw.hooks # <<>> /\ fw.hooks[1] = "on_request_received"
    /\ fw.pc = "connect" => fw.upOut = <<>>
    /\ fw.upOut # <<>> =>
          /\ fw.began
          /\ fw.upOut = <<"request_line">> \o fw.reqHeaders \o <<"blank">>
    /\ fw.began => fw.upOut # <<>>

\* The request of a handler that appends X-Custom-Header is sent and the
\* call waits for the status line.
C16_Witness ==
    /\ fw.pc = "status"
    /\ fw.reqHeaders = <<"Host", "X-Custom-Header">>
    /\ fw.upOut = <<"request_line", "Host", "X-Custom-Header", "blank">>

\* C18: the status line and the headers written to the client are those of
\* self.response as on_response_received left it.
C18_ResponseAsHookLeftIt ==
    Len(fw.out) >= 3 =>
        /\ fw.respStatus = "handler" => fw.out[1] = "status(handler)"
        /\ fw.respHeaders = "handler" => fw.out[2] = "headers(handler)"

\* C19: when open_connection fails with an OSError that is not a TLS error,
\* on_error is invoked with it and nothing is written to the client.
C19_ConnectErrorToHook ==
    (ForwardEnded /\ fw.connectErr = "OSError") =>
        /\ HookCount(fw, "on_error(OSError)") = 1
        /\ fw.out = <<>>

\* C20: when the upstream closes before the status line, or sends a chunk
\* size that is not hexadecimal, the call is aborted and on_error and
\* on_response_complete are both invoked.
C20_ProtocolErrorToHooks ==
    (ForwardEnded /\ fw.protoErr # "none") =>
        /\ fw.result # "returned"
        /\ HookCount(fw, "on_error(ConnectionError)")
             + HookCount(fw, "on_error(ValueError)") >= 1
        /\ HookCount(fw, "on_response_complete") = 1

(***************************************************************************)
(* The default handler under the acceptor, checked under Spec.             *)
(***************************************************************************)

\* C17: with HTTPSForwardProxyHandler and no override, a connection that
\* reached READY has had on_request_received awaited and forward_http_request
\* run by the time its task ends.
C17_DefaultHandlerForwards ==
    \A k \in Conns :
        (handlerClass = "HTTPSForwardProxyHandler" /\ Ready(k)
           /\ pc[k] = "ended") =>
            LET hs == hobj[proxy[k]].hooks
            IN  /\ \E i \in 1..Len(hs) : hs[i] = "on_request_received"
                /\ \E i \in 1..Len(hs) : hs[i] = "forward_http_request"

(***************************************************************************)
(* Properties of the body relay, checked under SpecForward.                *)
(***************************************************************************)
\* The bytes in a sequence of pieces, given by their lengths.
RECURSIVE SumSeq(_)
SumSeq(q) == IF q = <<>> THEN 0 ELSE Head(q) + SumSeq(Tail(q))

\* The results of on_response_chunk that are not None, in order.
Written(res) == SelectSeq(res, LAMBDA r : r # -1)

\* on_response_chunk returned every chunk as it got it.
IdentityHook == fw.res = fw.fed

\* C21: with Content-Length: N the relay never reads more than N body bytes,
\* reads them in chunks of 1..4096 bytes and has read exactly N when it
\* returns without the upstream having closed early; every chunk goes
\* through on_response_chunk once, in order; the body written is the
\* results of the hook in order without those that are None; the headers
\* are written as received unless on_response_received changed them; with
\* the identity hook the client gets exactly N bytes.
C21_FixedLengthRelay ==
    fw.mode = "fixed" =>
        /\ fw.remaining >= 0
        /\ SumSeq(fw.fed) + fw.remaining = fw.resp.n
        /\ \A i \in 1..Len(fw.fed) : fw.fed[i] \in 1..MAX_CHUNK_SIZE
        /\ Len(fw.res) = Len(fw.fed)
        /\ HookCount(fw, "on_response_chunk") = Len(fw.fed)
        /\ fw.body = Written(fw.res)
        /\ fw.respHeaders = "upstream" => fw.out[2] = "headers(upstream)"
        /\ (ForwardEnded /\ fw.result = "returned" /\ ~fw.eof) =>
              /\ SumSeq(fw.fed) = fw.resp.n
              /\ IdentityHook => SumSeq(fw.body) = fw.resp.n

\* A body of 4097 bytes was read in two chunks, of 4096 bytes and of one;
\* the hook returned the first and dropped the second, and the call
\* returned.
C21_Witness ==
    /\ ForwardEnded
    /\ fw.result = "returned"
    /\ fw.mode = "fixed"
    /\ fw.resp.n = MAX_CHUNK_SIZE + 1
    /\ fw.fed = <<MAX_CHUNK_SIZE, 1>>
    /\ fw.res = <<MAX_CHUNK_SIZE, -1>>
    /\ fw.body = <<MAX_CHUNK_SIZE>>

\* Bytes of body data the client got for the i-th chunk given to the hook.
DataWritten(i) == IF fw.res[i] = -1 THEN 0 ELSE fw.res[i]

\* C22: a chunked response of an upstream that sends a well-formed body and
\* keeps the connection open, relayed with the identity hook, reaches the
\* client whole: the call returns with the zero-size chunk and the blank
\* line that ends the trailers written last, and with as many data bytes
\* written as were read, however the reads split the stream.
C22_ChunkedByteForByte ==
    (/\ ForwardEnded
     /\ fw.result = "returned"
     /\ fw.mode = "chunked"
     /\ IdentityHook
     /\ ~fw.eof
     /\ fw.protoErr = "none") =>
        /\ \E i \in 1..Len(fw.out) : fw.out[i] = "zerochunk"
        /\ fw.out[Len(fw.out)] = "blank"
        /\ SumSeq(fw.body) = SumSeq(fw.fed)

\* C23: for every chunk whose data and CRLF were read whole, the size the
\* forwarded size line declares is the number of data bytes written before
\* the chunk's CRLF, whatever on_response_chunk returned.
C23_ChunkFramingPreserved ==
    fw.mode = "chunked" =>
        \A i \in 1..Len(fw.res) :
            fw.fed[i] = fw.decl[i] => DataWritten(i) = fw.decl[i]

\* C24: when a forward call has ended, no upstream connection is open, the
\* one this call opened included; and an error raised by wait_closed() is
\* given to on_error and changes nothing in how the call ends: it returns,
\* or raises the exception that was already on its way.
C24_UpstreamClosedQuietly ==
    /\ [](ForwardEnded => fw.open = {})
    /\ [][(fw.pc = "close" /\ fw'.pc = "idle"
           /\ HookCount(fw', "on_error(close)") > HookCount(fw, "on_error(close)"))
          => fw'.result = fw.pend]_vars

\* A call opened its upstream connection and relayed a response;
\* wait_closed() raised, on_error got the error and the call returned.
C24_Witness ==
    /\ ForwardEnded
    /\ fw.began
    /\ fw.open = {}
    /\ fw.result = "returned"
    /\ fw.hooks[Len(fw.hooks)] = "on_error(close)"
    /\ HookCount(fw, "on_response_complete") = 1

\* C25: a forward call that opened its upstream connection and ended with
\* the CancelledError of its task has invoked on_response_complete.
C25_CompleteAfterCancel ==
    (ForwardEnded /\ fw.began /\ fw.result = "CancelledError") =>
        HookCount(fw, "on_response_complete") >= 1

(***************************************************************************)
(* Parse errors of the acceptor, checked under Spec.                       *)
(***************************************************************************)
\* The task of connection k ended with an exception of _parse_request
\* raised for what the client sent: a malformed request line or header
\* line (ValueError), or a header block cut short (IncompleteReadError).
ParseFailed(k) ==
    pc[k] = "ended" /\ exc[k] \in {"ValueError", "IncompleteReadError"}

\* C26: after a parse error of the outer request, or of the inner request
\* behind a CONNECT upgrade, the handler has no request and its callback
\* was not invoked, the client got nothing for the failed request (nothing
\* at all, or only the reply to the CONNECT request that came before it),
\* and the writer is closed.
C26_ParseErrorEndsConnection ==
    \A k \in Conns :
        ParseFailed(k) =>
            /\ hobj[proxy[k]].request = NoReq
            /\ hobj[proxy[k]].seen = <<>>
            /\ hobj[proxy[k]].hooks = <<>>
            /\ plainOut[k] = IF tlsDone[k] THEN <<ConnectReply>> ELSE <<>>
            /\ writerClosed[k]

\* Both cases happened: one connection failed on its outer request, another
\* on the inner request after its upgrade.
C26_Witness ==
    \E j, k \in Conns :
        /\ ParseFailed(j) /\ ~tlsDone[j] /\ initial[j] = NoReq
        /\ ParseFailed(k) /\ tlsDone[k] /\ initial[k].method = S_CONNECT
        /\ writerClosed[j] /\ writerClosed[k]

(***************************************************************************)
(* Properties of HTTPRequest, checked under SpecRequest.                   *)
(***************************************************************************)
\* C27: parsing what to_raw_headers returned gives back the header list
\* that was serialised, and from the first serialisation on every further
\* parse and serialisation returns the same bytes.
C27_HeaderRoundTripFixedPoint ==
    /\ hr.step = "reparsed" => hr.headers = hr.prev
    /\ (hr.step = "raw" /\ hr.cycles >= 2) => hr.raw = hr.prevRaw

\* The lines of a serialised header block that are not empty.
HeaderLinesOf(raw) == SelectSeq(Split(raw, CRLF), LAMBDA line : line # <<>>)

\* The positions of the headers whose name is key, ignoring case.
Matches(headers, key) ==
    {i \in 1..Len(headers) : Lower(headers[i][1]) = Lower(key)}

\* C28: parse_headers yields one entry per header line, in the order of the
\* lines, duplicates included; to_raw_headers writes one line per entry in
\* the order of the list, the name before the colon; parsing that again
\* gives the same names in the same order; and get_first_header returns the
\* value of the first entry whose name equals the key ignoring case, None
\* when there is none.
C28_OrderDuplicatesAndFirst ==
    /\ (hr.step = "headers" /\ hr.origin = "parsed") =>
          /\ Len(hr.headers) = Len(hr.given)
          /\ \A i \in 1..Len(hr.given) :
                /\ hr.headers[i][1] = hr.given[i][1]
                /\ hr.headers[i][2] = hr.given[i][2]
    /\ hr.step = "raw" =>
          LET lines == HeaderLinesOf(hr.raw)
          IN  /\ Len(lines) = Len(hr.headers)
              /\ \A i \in 1..Len(lines) :
                    /\ SplitOnce(lines[i], ":")[1] = hr.headers[i][1]
                    /\ SplitOnce(lines[i], ":")[2] = <<" ">> \o hr.headers[i][2]
    /\ hr.step = "reparsed" =>
          /\ Len(hr.headers) = Len(hr.prev)
          /\ \A i \in 1..Len(hr.prev) : hr.headers[i][1] = hr.prev[i][1]
    /\ hr.key # None =>
          LET m == Matches(hr.headers, hr.key)
          IN  hr.first = IF m = {} THEN None
                         ELSE hr.headers[CHOOSE i \in m : \A j \in m : i <= j][2]

\* After a serialisation and a parse the list holds the names a and A with
\* different values, and get_first_header("A") returned the value of a.
C28_Witness ==
    /\ hr.step = "reparsed"
    /\ Len(hr.headers) = 2
    /\ hr.headers[1][1] = <<"a">>
    /\ hr.headers[2][1] = <<"A">>
    /\ hr.headers[1][2] # hr.headers[2][2]
    /\ hr.key = <<"A">>
    /\ hr.first = hr.headers[1][2]

\* A line without its line end.
Chomp(line) ==
    IF line # <<>> /\ line[Len(line)] = CRLF
    THEN SubSeq(line, 1, Len(line) - 1)
    ELSE line

\* parse_request_line raised ValueError and produced no request.
Rejected == hr.lineRes.err = "ValueError" /\ hr.lineRes.req = NoReq

\* The tokens make a line parse_request_line must reject: not three of
\* them, or CONNECT with a target that has no colon.
Malformed(tokens) ==
    \/ Len(tokens) # 3
    \/ tokens[1] = S_CONNECT /\ IndexOf(tokens[2], ":") = 0

\* C29 as stated: every line that does not split on single spaces into
\* exactly three tokens, and every CONNECT line whose target has no colon,
\* is rejected with ValueError and no request is produced.
C29_RejectsNotThreeTokens ==
    (hr.step = "line" /\ Malformed(Split(Chomp(hr.line), " "))) => Rejected

\* C29, amended: the same holds of the line once the whitespace before its
\* first and after its last token, the line end included, is removed.
C29_RejectsAfterStrip ==
    (hr.step = "line" /\ Malformed(Split(Strip(hr.line), " "))) => Rejected

\* Lines of four tokens and a CONNECT line without a colon were rejected.
C29_Witness ==
    /\ hr.step = "line"
    /\ hr.line \in {LineFourTokens, LineConnectNoColon, LineDoubleSpace}
    /\ Rejected

\* The last position of c in s, 0 when there is none.
LastIndexOf(s, c) ==
    IF \E i \in 1..Len(s) : s[i] = c
    THEN CHOOSE i \in 1..Len(s) : s[i] = c /\ \A j \in (i + 1)..Len(s) : s[j] # c
    ELSE 0

\* C30: a CONNECT line with a target host:port, the port a decimal number
\* of 16 bits, parses to method CONNECT, scheme https, the host before the
\* last colon and the port as an integer; a GET line with an absolute URI
\* parses to scheme http, the host of the URI and its port, 80 without one.
C30_ParsedTarget ==
    hr.step = "line" =>
        LET tokens == Split(Strip(hr.line), " ")
            target == tokens[2]
            colon == LastIndexOf(target, ":")
            host == SubSeq(target, 1, colon - 1)
            port == SubSeq(target, colon + 1, Len(target))
            req == hr.lineRes.req
        IN  /\ (/\ Len(tokens) = 3
                /\ tokens[1] = S_CONNECT
                /\ colon > 1
                /\ IsDecimal(port) /\ DecimalValue(port) <= 65535) =>
                   /\ hr.lineRes.err = "none"
                   /\ req.method = S_CONNECT
                   /\ req.scheme = "https"
                   /\ req.host = host
                   /\ req.port = PortInt(DecimalValue(port))
            /\ hr.line \in {LineGetAbsolute, LineGetNoPort} =>
                   /\ hr.lineRes.err = "none"
                   /\ req.method = S_GET
                   /\ req.scheme = "http"
                   /\ req.host = <<"a">>
                   /\ req.port = IF hr.line = LineGetAbsolute
                                 THEN PortInt(8) ELSE PortInt(80)

(***************************************************************************)
(* The choice of the relay mode, checked under SpecForward.                *)
(***************************************************************************)
\* The response head was written to the client: _forward_response_body was
\* entered.
HeadWritten == fw.out # <<>>

\* Transfer-Encoding of self.response names chunked, in whatever case.
NamesChunked == fw.resp.te \in {S_CHUNKED, S_CHUNKED_MIXED}

\* C31 as stated: once the head is written the mode is fixed length when
\* self.response has a Content-Length header, else chunked when its
\* Transfer-Encoding names chunked, else read to EOF.
C31_ModeFromHeaders ==
    HeadWritten =>
        fw.mode = IF fw.resp.cl # "absent" THEN "fixed"
                  ELSE IF NamesChunked THEN "chunked"
                  ELSE "eof"

\* C31, amended: the same for a Content-Length value that is a number; an
\* empty value counts as no Content-Length, and with a value that is not a
\* number no mode is chosen and the call does not return normally.  The
\* mode is chosen from self.response as on_response_received left it, the
\* loops of one mode only run in that mode, and the mode does not change
\* during a call.
C31_ModeFromUsableHeaders ==
    /\ [](HeadWritten =>
            IF fw.resp.cl = "bad"
            THEN /\ fw.mode = "none"
                 /\ fw.pc \in {"close", "idle"}
                 /\ "returned" \notin {fw.pend, fw.result}
            ELSE fw.mode = IF fw.resp.cl = "num" THEN "fixed"
                           ELSE IF NamesChunked THEN "chunked"
                           ELSE "eof")
    /\ [](/\ fw.pc = "body" => fw.mode \in {"fixed", "eof"}
          /\ fw.pc \in {"chunksize", "chunkdata", "trailers"} =>
                fw.mode = "chunked")
    /\ [][(fw.mode # "none" /\ fw'.calls = fw.calls) => fw'.mode = fw.mode]_vars

\* on_response_received removed the Content-Length the upstream sent along
\* with Transfer-Encoding: chunked; the body was relayed as chunks and the
\* call returned.
C31_Witness ==
    /\ ForwardEnded
    /\ fw.result = "returned"
    /\ fw.respHeaders = "handler"
    /\ fw.resp = RespHeaders("absent", 0, S_CHUNKED)
    /\ fw.mode = "chunked"
    /\ fw.out[Len(fw.out)] = "blank"

\* C32: in chunked mode every chunk given to on_response_chunk has the
\* length its size line declared, and while the upstream stays open the
\* read of a chunk leaves none of its data or CRLF behind.
C32_ChunkReadWhole ==
    fw.mode = "chunked" =>
        /\ \A i \in 1..Len(fw.fed) : fw.fed[i] = fw.decl[i]
        /\ ~fw.eof => fw.rest = 0

\* C36: a forward call that ended without having opened an upstream
\* connection has not invoked on_response_complete.
C36_NoCompleteWithoutConnection ==
    (ForwardEnded /\ ~fw.began) => HookCount(fw, "on_response_complete") = 0

(***************************************************************************)
(* Termination of the read loops, checked under SpecForwardLive.           *)
(***************************************************************************)
\* The call is in the loop of _read_and_forward_response that reads the
\* header lines, the upstream open or closed.
InHeaderLoop == fw.mode = "none" /\ fw.pc \in {"headers", "spin"}

\* C34: a call that reads the header block of the response leaves that loop,
\* also when the upstream closes before the blank line.
C34_HeaderReadEnds == InHeaderLoop ~> ~InHeaderLoop

\* The call is in _forward_chunked_response, the upstream open or closed.
InChunkedRelay ==
    fw.mode = "chunked"
    /\ fw.pc \in {"chunksize", "chunkdata", "trailers", "spin"}

\* C35: a call in the chunked relay leaves it, whatever the upstream does,
\* and on_response_complete is invoked.
C35_ChunkedRelayEnds ==
    InChunkedRelay ~>
        (/\ fw.mode = "chunked"
         /\ fw.pc \in {"close", "idle"}
         /\ HookCount(fw, "on_response_complete") = 1)

\* C33 (https_proxy_handler.py:40-60, https_forward_proxy_handler.py:94-113):
\* read_request_body yields nothing when the request has no Content-Length
\* header; otherwise it yields non-empty chunks of at most 4096 bytes whose
\* total never exceeds Content-Length and equals it unless the client closed
\* first; each chunk is written upstream after the request line, the headers
\* and the blank line, and the drain comes before the status line is read.
\* A negative Content-Length is read as an empty body.
\* Content-Length: -1 makes the generator call read(-1), which returns every
\* byte up to the end of the stream as one chunk, and a value that is not a
\* number raises from int().
C33_BodyBoundedByContentLength ==
    /\ rb.cl.cl = "absent" => rb.yielded = <<>>
    /\ rb.pc # "raised"
    /\ \A i \in 1..Len(rb.yielded) : rb.yielded[i] \in 1..MAX_CHUNK_SIZE
    /\ LET declared == IF rb.cl.n < 0 THEN 0 ELSE rb.cl.n
       IN  /\ rb.cl.cl = "num" => SumSeq(rb.yielded) <= declared
           /\ (/\ rb.cl.cl = "num"
               /\ rb.pc \in {"drain", "status", "done"}
               /\ ~rb.eof) => SumSeq(rb.yielded) = declared
    /\ rb.pc # "idle" =>
          /\ Len(rb.upOut) = 3 + Len(rb.yielded)
          /\ SubSeq(rb.upOut, 1, 3) = <<"request_line", "headers", "blank">>
          /\ \A i \in 4..Len(rb.upOut) : rb.upOut[i] = "chunk"
    /\ rb.pc \in {"status", "done"} => rb.drained
    /\ rb.pc \in {"idle", "read", "drain", "raised"} => ~rb.drained

=============================================================================
